---- MODULE Spec2Model ----
(***************************************************************************)
(* TTNet: the two-stage ball localisation (global heatmap -> crop of the   *)
(* original frame -> local stage -> final position of the demo), the       *)
(* training targets, and the tensor shapes of the segmentation branch.     *)
(*                                                                         *)
(* Images are scaled down: the resized frame is at most MaxWResize x       *)
(* MaxHResize and the original frame at most MaxWOriginal x MaxHOriginal   *)
(* (the program runs 320 x 128 on 1920 x 1080).  Heatmap entries are in    *)
(* thousandths, so the 0.01 threshold of the code is 10.                   *)
(***************************************************************************)
EXTENDS Integers, Sequences, FiniteSets, TLC

\* ---------------------------------------------------------------- bounds
MaxWResize == 5
MaxHResize == 3
MaxWOriginal == 5
MaxHOriginal == 3
\* at most MaxPeaks entries of a heatmap exceed the threshold
MaxPeaks == 3

\* pred_ball_global > 0.01 (TTNet.py:191), in thousandths
Thresh == 10
\* sigmoid outputs: exactly 0.01 (not above the threshold), and two levels above it
HeatValues == {Thresh, Thresh + 1, Thresh + 2}

VARIABLES
    pc,                    \* position in the forward pass / the call
    w_resize, h_resize,    \* self.w_resize, self.h_resize
    w_original, h_original,\* original_batch_input.size()
    pred_ball_global,      \* heatmap of the global stage, w_resize + h_resize entries
    ball_resized,          \* <<x, y>>: ball position in the resized frame (before line 208)
    ball_pos_x, ball_pos_y,\* ball position in the original frame (after line 208-209)
    x_min, x_max, y_min, y_max,
    x_pad, y_pad,
    input_ball_local,      \* [y][x] -> pixel, 0 is the zero of torch.zeros_like
    prediction_local,      \* <<lx, ly>> of the demo
    prediction_ball_final, \* <<x, y>> of the demo
    event_class,           \* event_class[idx] of Unbalance_Loss_Model.forward
    global_ball_pos_xy,    \* <<x, y>> in the resized frame
    local_ball_pos_xy,     \* <<x, y>> in the local input
    target_ball_global, target_ball_local, target_events,
    resize_batch_input,    \* shape of the input of the encoder
    out_blocks,            \* shapes returned by BallDetection.forward
    pred_segmentation,     \* shape returned by Segmentation.forward
    num_frames_sequence,   \* configs.num_frames_sequence
    game_list,             \* number of games of the dataset; the games are 1 .. game_list
    game_idx,              \* position of the loop of line 88 in game_list
    events_annos,          \* the annotations the loop of line 98 has read so far
    events_infor, events_labels,
    pretrained_dict,       \* checkpoint['state_dict']: name -> value
    model_state_dict,      \* the state dict of the model: name -> value
    overwrite_global_2_local,
    has_module,            \* hasattr(model, 'module')
    loaded_state_dict,     \* the argument of load_state_dict
    local_stage_result,    \* the value load_weights_local_stage returns
    requires_grad,         \* parameter name -> requires_grad
    requires_grad_before,  \* the flags when freeze_model was called
    freeze_modules_list,   \* the list of the last call of freeze_model
    freeze_calls,          \* number of calls of freeze_model
    epoch,                 \* the loop variable of line 122, 0 before the first epoch
    start_epoch, num_epochs, checkpoint_freq, earlystop_patience, is_master_node,
    best_val_loss, earlystop_count, is_best,
    val_losses,            \* the validation losses of the epochs of this run
    entry_best_val_loss,   \* best_val_loss when the loop of line 122 was entered
    checkpoint             \* the saved_state of the last save_checkpoint, <<>> if none

cropVars == <<pc, w_resize, h_resize, w_original, h_original, pred_ball_global,
              ball_resized, ball_pos_x, ball_pos_y, x_min, x_max, y_min, y_max,
              x_pad, y_pad, input_ball_local, prediction_local, prediction_ball_final>>

targetVars == <<event_class, global_ball_pos_xy, local_ball_pos_xy,
                target_ball_global, target_ball_local, target_events>>

segVars == <<resize_batch_input, out_blocks, pred_segmentation>>

eventsVars == <<num_frames_sequence, game_list, game_idx, events_annos,
                events_infor, events_labels>>

loadVars == <<pretrained_dict, model_state_dict, overwrite_global_2_local,
              has_module, loaded_state_dict, local_stage_result>>

freezeVars == <<requires_grad, requires_grad_before, freeze_modules_list, freeze_calls>>

trainVars == <<epoch, start_epoch, num_epochs, checkpoint_freq, earlystop_patience, is_master_node,
               best_val_loss, earlystop_count, is_best, val_losses,
               entry_best_val_loss, checkpoint>>

utilVars == <<eventsVars, loadVars, freezeVars, trainVars>>

\* everything of the forward pass but pc
forwardVars == <<w_resize, h_resize, w_original, h_original, pred_ball_global,
                 ball_resized, ball_pos_x, ball_pos_y, x_min, x_max, y_min, y_max,
                 x_pad, y_pad, input_ball_local, prediction_local,
                 prediction_ball_final, targetVars, segVars>>

\* ------------------------------------------------------------- arithmetic
Max(a, b) == IF a >= b THEN a ELSE b
Min(a, b) == IF a <= b THEN a ELSE b

\* Python int(a / b) for b > 0: truncation toward zero
IntDiv(a, b) == IF a >= 0 THEN a \div b ELSE -((-a) \div b)

\* ------------------------------------------------------------- the frames
\* The original frame: every pixel carries its own position, and none is 0.
OriginalPixel(x, y) == y * w_original + x + 1

ZeroLocal == [y \in 0 .. h_resize - 1 |-> [x \in 0 .. w_resize - 1 |-> 0]]

\* -------------------------------------------------------- get_crop_params
get_crop_params_unclamped(x_center, y_center, wr, hr, wo, ho) ==
    LET xmin == Max(0, x_center - IntDiv(wr, 2))
        ymin == Max(0, y_center - IntDiv(hr, 2))
    IN  [x_min |-> xmin, x_max |-> xmin + wr, y_min |-> ymin, y_max |-> ymin + hr]

get_crop_params(x_center, y_center, wr, hr, wo, ho) ==
    LET xmin == Max(0, x_center - IntDiv(wr, 2))
        ymin == Max(0, y_center - IntDiv(hr, 2))
        xmax == Min(wo, xmin + wr)
        ymax == Min(ho, ymin + hr)
    IN  [x_min |-> xmin, x_max |-> xmax, y_min |-> ymin, y_max |-> ymax]

\* ------------------------------------------------------- the global stage
\* mask = pred_ball_global > 0.01 ; pred_ball_global * mask
MaskedInclusive(v) == IF v >= Thresh THEN v ELSE 0

Masked(v) == IF v > Thresh THEN v ELSE 0

pred_ball_pos_x == [i \in 0 .. w_resize - 1 |-> Masked(pred_ball_global[i])]
pred_ball_pos_y == [i \in 0 .. h_resize - 1 |-> Masked(pred_ball_global[w_resize + i])]

RECURSIVE SumTo(_, _)
SumTo(f, n) == IF n = 0 THEN 0 ELSE f[n - 1] + SumTo(f, n - 1)

\* torch.argmax: the indices of a maximal entry
ArgMax(f, n) == {i \in 0 .. n - 1 : \A j \in 0 .. n - 1 : f[j] <= f[i]}

NotDetected == (SumTo(pred_ball_pos_x, w_resize) = 0) \/ (SumTo(pred_ball_pos_y, h_resize) = 0)

\* the positions lines 199-205 can yield, in the resized frame
BallPositions ==
    IF NotDetected
    THEN {<<IntDiv(w_resize, 2), IntDiv(h_resize, 2)>>}
    ELSE ArgMax(pred_ball_pos_x, w_resize) \X ArgMax(pred_ball_pos_y, h_resize)

\* int(ball_pos_x * w_ratio) with w_ratio = w_original / w_resize
ToOriginalRoundedUp(i, original, resize) == IntDiv(i * original + resize - 1, resize)

ToOriginal(i, original, resize) == IntDiv(i * original, resize)

ToOriginalX(ix) == ToOriginal(ix, w_original, w_resize)
ToOriginalY(iy) == ToOriginal(iy, h_original, h_resize)

\* ------------------------------------------------------------------ Init
Dims ==
    /\ w_resize \in 1 .. MaxWResize
    /\ h_resize \in 1 .. MaxHResize
    /\ w_original \in w_resize .. MaxWOriginal
    /\ h_original \in h_resize .. MaxHOriginal

CropIdle ==
    /\ pred_ball_global = <<>>
    /\ ball_resized = <<>>
    /\ ball_pos_x = 0 /\ ball_pos_y = 0
    /\ x_min = 0 /\ x_max = 0 /\ y_min = 0 /\ y_max = 0
    /\ x_pad = 0 /\ y_pad = 0
    /\ input_ball_local = <<>>
    /\ prediction_local = <<>>
    /\ prediction_ball_final = <<>>

TargetsIdle ==
    /\ event_class = 0
    /\ global_ball_pos_xy = <<>>
    /\ local_ball_pos_xy = <<>>
    /\ target_ball_global = <<>>
    /\ target_ball_local = <<>>
    /\ target_events = <<>>

SegIdle ==
    /\ resize_batch_input = <<>>
    /\ out_blocks = <<>>
    /\ pred_segmentation = <<>>

EventsIdle ==
    /\ num_frames_sequence = 0
    /\ game_list = 0 /\ game_idx = 0
    /\ events_annos = <<>>
    /\ events_infor = <<>> /\ events_labels = <<>>

LoadIdle ==
    /\ pretrained_dict = <<>> /\ model_state_dict = <<>>
    /\ overwrite_global_2_local = FALSE /\ has_module = FALSE
    /\ loaded_state_dict = <<>> /\ local_stage_result = <<>>

FreezeIdle ==
    /\ requires_grad = <<>> /\ requires_grad_before = <<>>
    /\ freeze_modules_list = <<>> /\ freeze_calls = 0

TrainIdle ==
    /\ epoch = 0 /\ start_epoch = 0 /\ num_epochs = 0 /\ checkpoint_freq = 0
    /\ earlystop_patience = 0 /\ is_master_node = FALSE
    /\ best_val_loss = 0 /\ earlystop_count = 0 /\ is_best = FALSE
    /\ val_losses = <<>> /\ entry_best_val_loss = 0
    /\ checkpoint = <<>>

UtilIdle == EventsIdle /\ LoadIdle /\ FreezeIdle /\ TrainIdle

ForwardIdle ==
    /\ w_resize = 0 /\ h_resize = 0 /\ w_original = 0 /\ h_original = 0
    /\ CropIdle
    /\ TargetsIdle
    /\ SegIdle

Init ==
    /\ pc = "global"
    /\ UtilIdle
    /\ Dims
    /\ CropIdle
    /\ TargetsIdle
    /\ SegIdle

\* --------------------------------------------------------------- actions
Peaks(heat) == Cardinality({i \in DOMAIN heat : heat[i] > Thresh})

Heatmaps ==
    {heat \in [0 .. (w_resize + h_resize - 1) -> HeatValues] : Peaks(heat) <= MaxPeaks}

\* TTNet.forward, line 166: the global stage yields a heatmap (sigmoid outputs)
BallGlobalStage ==
    /\ pc = "global"
    /\ \E heat \in Heatmaps : pred_ball_global' = heat
    /\ pc' = "crop"
    /\ UNCHANGED <<w_resize, h_resize, w_original, h_original, ball_resized,
                   ball_pos_x, ball_pos_y, x_min, x_max, y_min, y_max, x_pad, y_pad,
                   input_ball_local, prediction_local, prediction_ball_final>>
    /\ UNCHANGED <<targetVars, segVars, utilVars>>

\* the block written by lines 217-223
PaddedLocal(p, xp, yp) ==
    [y \in 0 .. h_resize - 1 |-> [x \in 0 .. w_resize - 1 |->
        IF /\ yp <= y /\ y < yp + (p.y_max - p.y_min)
           /\ xp <= x /\ x < xp + (p.x_max - p.x_min)
        THEN OriginalPixel(p.x_min + (x - xp), p.y_min + (y - yp))
        ELSE ZeroLocal[y][x]]]

\* lines 218-219: x_pad = int((self.w_resize - w_crop) / 2)
PadOffsetNone(size, crop) == 0

PadOffset(size, crop) == IntDiv(size - crop, 2)

\* TTNet.crop_original_batch for one element of the batch
CropOriginalBatch ==
    /\ pc = "crop"
    /\ \E pos \in BallPositions :
         LET bx == ToOriginalX(pos[1])
             by == ToOriginalY(pos[2])
             p == get_crop_params(bx, by, w_resize, h_resize, w_original, h_original)
             h_crop == p.y_max - p.y_min
             w_crop == p.x_max - p.x_min
             padded == (h_crop # h_resize) \/ (w_crop # w_resize)
             xp == IF padded THEN PadOffset(w_resize, w_crop) ELSE 0
             yp == IF padded THEN PadOffset(h_resize, h_crop) ELSE 0
         IN  /\ ball_resized' = pos
             /\ ball_pos_x' = bx
             /\ ball_pos_y' = by
             /\ x_min' = p.x_min /\ x_max' = p.x_max
             /\ y_min' = p.y_min /\ y_max' = p.y_max
             /\ x_pad' = xp /\ y_pad' = yp
             /\ input_ball_local' = PaddedLocal(p, xp, yp)
    /\ pc' = "demo"
    /\ UNCHANGED <<w_resize, h_resize, w_original, h_original, pred_ball_global,
                   prediction_local, prediction_ball_final>>
    /\ UNCHANGED <<targetVars, segVars, utilVars>>

\* demo.py lines 63-66: int(gx * w_ratio + lx - w / 2), int(gy * h_ratio + ly - h / 2)
FinalX(gx, lx) == IntDiv(2 * gx * w_original + 2 * lx * w_resize - w_resize * w_resize,
                         2 * w_resize)
FinalY(gy, ly) == IntDiv(2 * gy * h_original + 2 * ly * h_resize - h_resize * h_resize,
                         2 * h_resize)

\* the demo: the local stage predicts (lx, ly) in the local input
Demo ==
    /\ pc = "demo"
    /\ \E lx \in 0 .. w_resize - 1, ly \in 0 .. h_resize - 1 :
         /\ prediction_local' = <<lx, ly>>
         /\ prediction_ball_final' = <<FinalX(ball_resized[1], lx), FinalY(ball_resized[2], ly)>>
    /\ pc' = "done"
    /\ UNCHANGED <<w_resize, h_resize, w_original, h_original, pred_ball_global,
                   ball_resized, ball_pos_x, ball_pos_y, x_min, x_max, y_min, y_max,
                   x_pad, y_pad, input_ball_local>>
    /\ UNCHANGED <<targetVars, segVars, utilVars>>

Next == BallGlobalStage \/ CropOriginalBatch \/ Demo

\* ------------------------------------ get_crop_params called on its own
\* any centre, also one just outside the original frame
InitCropParams ==
    /\ UtilIdle
    /\ pc = "params"
    /\ Dims
    /\ ball_pos_x \in -1 .. w_original
    /\ ball_pos_y \in -1 .. h_original
    /\ pred_ball_global = <<>>
    /\ ball_resized = <<>>
    /\ x_min = 0 /\ x_max = 0 /\ y_min = 0 /\ y_max = 0
    /\ x_pad = 0 /\ y_pad = 0
    /\ input_ball_local = <<>>
    /\ prediction_local = <<>>
    /\ prediction_ball_final = <<>>
    /\ TargetsIdle
    /\ SegIdle

GetCropParams ==
    /\ pc = "params"
    /\ LET p == get_crop_params(ball_pos_x, ball_pos_y, w_resize, h_resize,
                                w_original, h_original)
       IN  /\ x_min' = p.x_min /\ x_max' = p.x_max
           /\ y_min' = p.y_min /\ y_max' = p.y_max
    /\ pc' = "params_done"
    /\ UNCHANGED <<w_resize, h_resize, w_original, h_original, pred_ball_global,
                   ball_resized, ball_pos_x, ball_pos_y, x_pad, y_pad,
                   input_ball_local, prediction_local, prediction_ball_final>>
    /\ UNCHANGED <<targetVars, segVars, utilVars>>

NextCropParams == GetCropParams

\* --------------------------------------------------- the training targets
\* An entry of a ball target is kept exactly: it is 0, or exp(-q / 2) for a
\* natural q (sigma = 1 and integer positions, unbalanced_loss_model.py:33).
Zero == [zero |-> TRUE, q |-> 0]
Exp(q) == [zero |-> FALSE, q |-> q]

\* a < b as numbers
Less(a, b) == ~b.zero /\ (a.zero \/ a.q > b.q)

\* exp(-q / 2) < thresh_mask = 0.01 iff q > 2 ln 100 = 9.21..
ThreshQ == 9
BelowThreshMask(e) == e.zero \/ e.q > ThreshQ

\* gaussian_1d with sigma = 1: exp(-((pos - muy) ** 2) / 2)
gaussian_1d(pos, muy) == Exp((pos - muy) * (pos - muy))

create_target_ball(ball_position_xy, w, h) ==
    LET x == ball_position_xy[1]
        y == ball_position_xy[2]
        gauss(i) == IF i < w THEN gaussian_1d(i, x) ELSE gaussian_1d(i - w, y)
    IN  [i \in 0 .. w + h - 1 |->
            IF (w > x /\ x > 0) /\ (h > y /\ y > 0)
            THEN IF BelowThreshMask(gauss(i)) THEN Zero ELSE gauss(i)
            ELSE Zero]

create_target_events_clipped(class) ==
    [i \in 0 .. 1 |-> IF i = Min(class, 1) THEN 1 ELSE 0]

create_target_events(class) ==
    [i \in 0 .. 1 |-> IF class < 2 /\ i = class THEN 1 ELSE 0]

\* events_dict: bounce 0, net 1, empty event 2 (and any further class)
MaxEventClass == 3

InitTargets ==
    /\ pc = "targets"
    /\ UtilIdle
    /\ w_resize \in 1 .. MaxWResize
    /\ h_resize \in 1 .. MaxHResize
    /\ w_original = 0 /\ h_original = 0
    /\ CropIdle
    /\ SegIdle
    /\ event_class \in 0 .. MaxEventClass
    /\ global_ball_pos_xy \in (-1 .. w_resize) \X (-1 .. h_resize)
    /\ local_ball_pos_xy \in (-1 .. w_resize) \X (-1 .. h_resize)
    /\ target_ball_global = <<>>
    /\ target_ball_local = <<>>
    /\ target_events = <<>>

\* Unbalance_Loss_Model.forward, lines 32-37, for one element of the batch
CreateTargets ==
    /\ pc = "targets"
    /\ target_ball_global' = create_target_ball(global_ball_pos_xy, w_resize, h_resize)
    /\ target_ball_local' = create_target_ball(local_ball_pos_xy, w_resize, h_resize)
    /\ target_events' = create_target_events(event_class)
    /\ pc' = "targets_done"
    /\ UNCHANGED <<event_class, global_ball_pos_xy, local_ball_pos_xy>>
    /\ UNCHANGED <<w_resize, h_resize, w_original, h_original, pred_ball_global,
                   ball_resized, ball_pos_x, ball_pos_y, x_min, x_max, y_min, y_max,
                   x_pad, y_pad, input_ball_local, prediction_local,
                   prediction_ball_final, segVars, utilVars>>

NextTargets == CreateTargets

\* ------------------------------------------- shapes of the encoder/decoder
\* A tensor is its shape (channels, height, width) for one element of the
\* batch; Raised is the result of a layer that raises.
Raised == [c |-> 0, h |-> 0, w |-> 0]

Conv2d(x, in_c, out_c, k, s, p) ==
    IF x = Raised \/ x.c # in_c \/ x.h + 2 * p < k \/ x.w + 2 * p < k
    THEN Raised
    ELSE [c |-> out_c, h |-> ((x.h + 2 * p - k) \div s) + 1,
                       w |-> ((x.w + 2 * p - k) \div s) + 1]

BatchNorm2d(x, c) == IF x = Raised \/ x.c # c THEN Raised ELSE x

MaxPool2d(x, k, s) ==
    IF x = Raised \/ x.h < k \/ x.w < k
    THEN Raised
    ELSE [c |-> x.c, h |-> ((x.h - k) \div s) + 1, w |-> ((x.w - k) \div s) + 1]

ConvTranspose2d(x, in_c, out_c, k, s, p, op) ==
    IF x = Raised \/ x.c # in_c
    THEN Raised
    ELSE [c |-> out_c, h |-> (x.h - 1) * s - 2 * p + k + op,
                       w |-> (x.w - 1) * s - 2 * p + k + op]

\* x + y of torch: sizes are equal, or one of them is 1 (broadcast)
AddDim(a, b) == IF a = b \/ b = 1 THEN a ELSE IF a = 1 THEN b ELSE 0

Add(x, y) ==
    IF \/ x = Raised \/ y = Raised
       \/ AddDim(x.c, y.c) = 0 \/ AddDim(x.h, y.h) = 0 \/ AddDim(x.w, y.w) = 0
    THEN Raised
    ELSE [c |-> AddDim(x.c, y.c), h |-> AddDim(x.h, y.h), w |-> AddDim(x.w, y.w)]

ConvBlock(x, in_c, out_c) ==
    MaxPool2d(BatchNorm2d(Conv2d(x, in_c, out_c, 3, 1, 1), out_c), 2, 2)

DeconvBlockNoOutputPadding(x, in_c, out_c) ==
    LET middle == in_c \div 4
        x1 == BatchNorm2d(Conv2d(x, in_c, middle, 1, 1, 0), middle)
        x2 == BatchNorm2d(ConvTranspose2d(x1, middle, middle, 3, 2, 1, 0), middle)
    IN  BatchNorm2d(Conv2d(x2, middle, out_c, 1, 1, 0), out_c)

DeconvBlock(x, in_c, out_c) ==
    LET middle == in_c \div 4
        x1 == BatchNorm2d(Conv2d(x, in_c, middle, 1, 1, 0), middle)
        x2 == BatchNorm2d(ConvTranspose2d(x1, middle, middle, 3, 2, 1, 1), middle)
    IN  BatchNorm2d(Conv2d(x2, middle, out_c, 1, 1, 0), out_c)

\* x.view(x.size(0), -1) followed by nn.Linear(in_features, ...)
LinearAccepts(x, in_features) == x # Raised /\ x.c * x.h * x.w = in_features

\* BallDetection.forward: the shapes it returns
BallDetectionForward(input) ==
    LET x == BatchNorm2d(Conv2d(input, 27, 64, 1, 1, 0), 64)
        b2 == ConvBlock(ConvBlock(x, 64, 64), 64, 64)
        b3 == ConvBlock(b2, 64, 128)
        b4 == ConvBlock(b3, 128, 128)
        b5 == ConvBlock(b4, 128, 256)
        f == ConvBlock(b5, 256, 256)
    IN  [raised |-> ~LinearAccepts(f, 2560), features |-> f,
         out_block2 |-> b2, out_block3 |-> b3, out_block4 |-> b4, out_block5 |-> b5]

\* Segmentation.forward
SegmentationForward(out_block2, out_block3, out_block4, out_block5) ==
    LET x5 == Add(DeconvBlock(out_block5, 256, 128), out_block4)
        x4 == Add(DeconvBlock(x5, 128, 128), out_block3)
        x3 == Add(DeconvBlock(x4, 128, 64), out_block2)
        x2 == DeconvBlock(x3, 64, 64)
        x1 == ConvTranspose2d(x2, 64, 32, 3, 2, 0, 0)
        x0 == Conv2d(x1, 32, 32, 3, 1, 0)
    IN  Conv2d(x0, 32, 3, 2, 1, 1)

\* the resized input is at most MaxSegH x MaxSegW (the program runs 128 x 320)
MaxSegH == 160
MaxSegW == 352

InitSeg ==
    /\ pc = "encoder"
    /\ UtilIdle
    /\ w_resize = 0 /\ h_resize = 0 /\ w_original = 0 /\ h_original = 0
    /\ CropIdle
    /\ TargetsIdle
    /\ \E H \in 1 .. MaxSegH, W \in 1 .. MaxSegW :
           resize_batch_input = [c |-> 27, h |-> H, w |-> W]
    /\ out_blocks = <<>>
    /\ pred_segmentation = <<>>

\* TTNet.forward, line 166: the encoder of the global stage
GlobalEncoder ==
    /\ pc = "encoder"
    /\ LET r == BallDetectionForward(resize_batch_input)
       IN  IF r.raised
           THEN pc' = "raised" /\ UNCHANGED out_blocks
           ELSE pc' = "segmentation" /\ out_blocks' = r
    /\ UNCHANGED <<resize_batch_input, pred_segmentation>>
    /\ UNCHANGED <<w_resize, h_resize, w_original, h_original, pred_ball_global,
                   ball_resized, ball_pos_x, ball_pos_y, x_min, x_max, y_min, y_max,
                   x_pad, y_pad, input_ball_local, prediction_local,
                   prediction_ball_final, targetVars, utilVars>>

\* TTNet.forward, line 175.  The crop, the local stage and the events
\* spotting of lines 169-173 leave out_block2..out_block5 alone.
SegmentationBranch ==
    /\ pc = "segmentation"
    /\ LET out == SegmentationForward(out_blocks.out_block2, out_blocks.out_block3,
                                      out_blocks.out_block4, out_blocks.out_block5)
       IN  IF out = Raised
           THEN pc' = "raised" /\ UNCHANGED pred_segmentation
           ELSE pc' = "seg_done" /\ pred_segmentation' = out
    /\ UNCHANGED <<resize_batch_input, out_blocks>>
    /\ UNCHANGED <<w_resize, h_resize, w_original, h_original, pred_ball_global,
                   ball_resized, ball_pos_x, ball_pos_y, x_min, x_max, y_min, y_max,
                   x_pad, y_pad, input_ball_local, prediction_local,
                   prediction_ball_final, targetVars, utilVars>>

NextSeg == GlobalEncoder \/ SegmentationBranch

\* ------------------------------------------- get_events_infor (data_process)
MaxFramesSequence == 4
MaxFrameIdx == 1
MaxEvents == 2
MaxGames == 1

\* configs.events_dict, read at ttnet_data_utils.py:116
events_dict == [event_name \in {"bounce", "net", "empty_event"} |->
                   CASE event_name = "bounce" -> 0
                     [] event_name = "net" -> 1
                     [] OTHER -> 2]

\* the x and y of ball_annos: a negative value marks a frame without a ball
BallCoords == {-1, 0}

\* Python range(a, b) as a list
Range(a, b) == [i \in 1 .. Max(0, b - a) |-> a + i - 1]

\* lines 100-101, without the + 1 of the upper end
ImgPathListNoLast(game_name, event_frameidx, num_frames_from_event) ==
    [i \in 1 .. Max(0, 2 * num_frames_from_event) |->
        <<game_name, event_frameidx - num_frames_from_event + i - 1>>]

\* lines 99-103: the path of an image is the game and the index of the frame
ImgPathList(game_name, event_frameidx, num_frames_from_event) ==
    LET f_idx == Range(event_frameidx - num_frames_from_event,
                       event_frameidx + num_frames_from_event + 1)
    IN  [i \in 1 .. Len(f_idx) |-> <<game_name, f_idx[i]>>]

\* line 109, with <= in place of <
SkippedNotPositive(ball_position_xy) ==
    (ball_position_xy[1] <= 0) \/ (ball_position_xy[2] <= 0)

\* line 109
Skipped(ball_position_xy) ==
    (ball_position_xy[1] < 0) \/ (ball_position_xy[2] < 0)

InitEvents ==
    /\ pc = "events"
    /\ ForwardIdle /\ LoadIdle /\ FreezeIdle /\ TrainIdle
    /\ num_frames_sequence \in 1 .. MaxFramesSequence
    /\ game_list \in 0 .. MaxGames
    /\ game_idx = 1
    /\ events_annos = <<>>
    /\ events_infor = <<>>
    /\ events_labels = <<>>

\* one iteration of the loop of line 98: the item of events_annos, the entry
\* of ball_annos for the last frame and whether the mask file exists are read
EventIteration ==
    /\ pc = "events"
    /\ game_idx <= game_list
    /\ Len(events_annos) < MaxEvents
    /\ \E event_frameidx \in 0 .. MaxFrameIdx, event_name \in DOMAIN events_dict,
          ball_position_xy \in BallCoords \X BallCoords, isfile \in BOOLEAN :
        LET num_frames_from_event == IntDiv(num_frames_sequence - 1, 2)
            img_path_list == ImgPathList(game_idx, event_frameidx, num_frames_from_event)
            last_f_idx == event_frameidx + num_frames_from_event
            seg_path == <<game_idx, last_f_idx>>
            event_class_ == events_dict[event_name]
            anno == [game_name |-> game_idx, event_frameidx |-> event_frameidx,
                     event_name |-> event_name, last_ball |-> ball_position_xy]
        IN  \* the keys of the json object of a game are distinct
            /\ \A i \in 1 .. Len(events_annos) :
                   ~ (events_annos[i].game_name = game_idx
                      /\ events_annos[i].event_frameidx = event_frameidx)
            /\ IF Skipped(ball_position_xy)
               THEN /\ events_annos' = Append(events_annos, anno)
                    /\ UNCHANGED <<pc, events_infor, events_labels>>
               ELSE IF ~ isfile
               THEN /\ pc' = "raised"
                    /\ UNCHANGED <<events_annos, events_infor, events_labels>>
               ELSE /\ events_annos' = Append(events_annos, anno)
                    /\ events_infor' = Append(events_infor,
                           [img_path_list |-> img_path_list,
                            ball_position_xy |-> ball_position_xy,
                            event_class |-> event_class_,
                            seg_path |-> seg_path])
                    /\ events_labels' = Append(events_labels, event_class_)
                    /\ pc' = pc
    /\ UNCHANGED <<num_frames_sequence, game_list, game_idx>>
    /\ UNCHANGED <<forwardVars, loadVars, freezeVars, trainVars>>

\* the loop of line 98 is exhausted: the loop of line 88 takes the next game
NextGame ==
    /\ pc = "events"
    /\ game_idx <= game_list
    /\ game_idx' = game_idx + 1
    /\ UNCHANGED <<pc, num_frames_sequence, game_list, events_annos,
                   events_infor, events_labels>>
    /\ UNCHANGED <<forwardVars, loadVars, freezeVars, trainVars>>

\* line 119
ReturnEvents ==
    /\ pc = "events"
    /\ game_idx > game_list
    /\ pc' = "events_done"
    /\ UNCHANGED eventsVars
    /\ UNCHANGED <<forwardVars, loadVars, freezeVars, trainVars>>

NextEvents == EventIteration \/ NextGame \/ ReturnEvents

\* ------------------------------------------------ model_utils: state dicts
MaxNameLen == 2
MaxEntries == 2

\* a parameter name is the list of its dotted components, as split('.') gives it
Components == {"model", "ball_global_stage", "ball_local_stage"}
Names == UNION {[1 .. n -> Components] : n \in 1 .. MaxNameLen}

\* the tensors of a checkpoint; 0 is the value of a freshly created model
Values == {1, 2}

RECURSIVE KeySets(_)
KeySets(n) ==
    IF n = 0 THEN {{}}
    ELSE LET smaller == KeySets(n - 1)
         IN  smaller \cup {S \cup {k} : S \in smaller, k \in Names}

\* the state dicts of at most MaxEntries entries
StateDicts == UNION {[K -> Values] : K \in KeySets(MaxEntries)}

\* {**a, **b} and a.update(b), with the entries of a taking precedence
MergeKeepFirst(a, b) ==
    [k \in DOMAIN a \cup DOMAIN b |-> IF k \in DOMAIN a THEN a[k] ELSE b[k]]

\* {**a, **b} (line 78) and a.update(b) (lines 99, 110)
Merge(a, b) ==
    [k \in DOMAIN a \cup DOMAIN b |-> IF k \in DOMAIN b THEN b[k] ELSE a[k]]

\* 'ball_global_stage' in layer_name (line 72)
ContainsGlobal(layer_name) ==
    \E i \in 1 .. Len(layer_name) : layer_name[i] = "ball_global_stage"

GlobalKeys(d) == {k \in DOMAIN d : ContainsGlobal(k)}

\* lines 73-75: layer_name_parts[1] = 'ball_local_stage' (the second component)
LocalName(layer_name) == [layer_name EXCEPT ![2] = "ball_local_stage"]

\* line 74 raises IndexError for a name of one component
RaisesIndexError(d) == \E k \in GlobalKeys(d) : Len(k) < 2

\* lines 70-76.  The loop runs in the insertion order of the dict, which the
\* function d does not record: when two names give the same local name the
\* later one wins, and either may be the later one.
LocalWeightsDicts(d) ==
    LET targets == {LocalName(k) : k \in GlobalKeys(d)}
    IN  {lw \in [targets -> Values] :
            \A t \in targets :
                \E k \in GlobalKeys(d) : LocalName(k) = t /\ d[k] = lw[t]}

\* lines 68-78: the values the function can return
load_weights_local_stage(d) == {Merge(d, lw) : lw \in LocalWeightsDicts(d)}

\* lines 94 and 105, keeping every key
FilterNothing(d, state_dict) == d

\* lines 94 and 105: {k: v for k, v in pretrained_dict.items() if k in model_state_dict}
Filter(d, state_dict) == [k \in DOMAIN d \cap DOMAIN state_dict |-> d[k]]

\* the wrapped TTNet has both stages (TTNet.py:152-153) under the attribute
\* model of the loss model (unbalanced_loss_model.py:14)
ModelStateDict ==
    [k \in {<<"model", "ball_global_stage">>, <<"model", "ball_local_stage">>} |-> 0]

InitLoad ==
    /\ pc = "load"
    /\ ForwardIdle /\ EventsIdle /\ FreezeIdle /\ TrainIdle
    /\ pretrained_dict \in StateDicts
    /\ model_state_dict = ModelStateDict
    /\ overwrite_global_2_local = FALSE
    /\ has_module = FALSE
    /\ loaded_state_dict = <<>>
    /\ local_stage_result = <<>>

\* load_weights_local_stage(pretrained_dict), lines 68-78
LoadWeightsLocalStage ==
    /\ pc = "load"
    /\ IF RaisesIndexError(pretrained_dict)
       THEN pc' = "raised" /\ UNCHANGED local_stage_result
       ELSE /\ pc' = "local_stage_done"
            /\ local_stage_result' \in load_weights_local_stage(pretrained_dict)
    /\ UNCHANGED <<pretrained_dict, model_state_dict, overwrite_global_2_local,
                   has_module, loaded_state_dict>>
    /\ UNCHANGED <<forwardVars, eventsVars, freezeVars, trainVars>>

\* load_pretrained_model, lines 90-113: both branches of line 91 do the same
\* with model.module or model.  load_state_dict is strict about the keys.
LoadPretrainedModel ==
    /\ pc = "load"
    /\ \E overwrite \in BOOLEAN, module \in BOOLEAN :
        LET filtered == Filter(pretrained_dict, model_state_dict)
        IN  /\ overwrite_global_2_local' = overwrite
            /\ has_module' = module
            /\ IF overwrite /\ RaisesIndexError(filtered)
               THEN pc' = "raised" /\ UNCHANGED loaded_state_dict
               ELSE \E new_dict \in (IF overwrite THEN load_weights_local_stage(filtered)
                                                  ELSE {filtered}) :
                        /\ loaded_state_dict' = Merge(model_state_dict, new_dict)
                        /\ pc' = IF DOMAIN loaded_state_dict' = DOMAIN model_state_dict
                                 THEN "load_done" ELSE "raised"
    /\ UNCHANGED <<pretrained_dict, model_state_dict, local_stage_result>>
    /\ UNCHANGED <<forwardVars, eventsVars, freezeVars, trainVars>>

NextLoad == LoadWeightsLocalStage \/ LoadPretrainedModel

\* -------------------------------------------------- model_utils.freeze_model
MaxFreezeList == 2
MaxFreezeCalls == 2

\* model.named_parameters() of the wrapped TTNet (TTNet.py:152-155), one
\* parameter for each module; a name is the list of its words, so that a
\* part of a name is a contiguous part of the list
ParamNames == {<<"model", "ball", "global", "stage">>,
               <<"model", "ball", "local", "stage">>,
               <<"model", "events", "spotting">>,
               <<"model", "segmentation">>}

\* the strings a freeze list is made of: module names, parts of them, ''
FreezeModules == {<<"ball", "global", "stage">>, <<"ball", "local", "stage">>,
                  <<"events", "spotting">>, <<"ball">>, <<"stage", "conv">>, <<>>}

FreezeLists == UNION {[1 .. n -> FreezeModules] : n \in 0 .. MaxFreezeList}

\* freeze_module in layer_name (line 61): substring
Contains(freeze_module, layer_name) ==
    \E i \in 0 .. Len(layer_name) - Len(freeze_module) :
        SubSeq(layer_name, i + 1, i + Len(freeze_module)) = freeze_module

\* lines 58-63 without line 59: a flag is only ever cleared
freeze_model_keep(flags, modules_list) ==
    [layer_name \in DOMAIN flags |->
        IF \E i \in 1 .. Len(modules_list) : Contains(modules_list[i], layer_name)
        THEN FALSE
        ELSE flags[layer_name]]

\* lines 58-63: the flag is set at line 59 and cleared at the first match
freeze_model(flags, modules_list) ==
    [layer_name \in DOMAIN flags |->
        LET matches == {i \in 1 .. Len(modules_list) :
                            Contains(modules_list[i], layer_name)}
        IN  IF matches = {} THEN TRUE ELSE FALSE]

\* a new parameter requires grad
InitFreeze ==
    /\ pc = "freeze"
    /\ ForwardIdle /\ EventsIdle /\ LoadIdle /\ TrainIdle
    /\ requires_grad = [layer_name \in ParamNames |-> TRUE]
    /\ requires_grad_before = <<>>
    /\ freeze_modules_list = <<>>
    /\ freeze_calls = 0

\* freeze_model(model, freeze_modules_list), lines 56-65
FreezeModel ==
    /\ pc = "freeze"
    /\ freeze_calls < MaxFreezeCalls
    /\ \E modules_list \in FreezeLists :
        /\ freeze_modules_list' = modules_list
        /\ requires_grad' = freeze_model(requires_grad, modules_list)
    /\ requires_grad_before' = requires_grad
    /\ freeze_calls' = freeze_calls + 1
    /\ pc' = pc
    /\ UNCHANGED <<forwardVars, eventsVars, loadVars, trainVars>>

NextFreeze == FreezeModel

\* ------------------------------------------------- main_worker: epoch loop
MaxEpochs == 3
MaxLoss == 2
MaxCheckpointFreq == 2
MaxPatience == 2

\* the values of validate_one_epoch: finite losses
Losses == 0 .. MaxLoss

\* np.inf (line 98): above every loss
Infinity == MaxLoss + 1

\* line 139, with < in place of <=
IsBestStrict(val_loss, best) == val_loss < best

\* line 139
IsBest(val_loss, best) == val_loss <= best

\* the saved state of training.train_utils.get_saved_state, as far as the
\* arguments of lines 149-150 go
get_saved_state(epoch_, best_val_loss_, earlystop_count_) ==
    [epoch |-> epoch_, best_val_loss |-> best_val_loss_,
     earlystop_count |-> earlystop_count_]

\* lines 98-108: a new run, or the values a resumed run takes over
InitTrain ==
    /\ pc = "epoch_loop"
    /\ ForwardIdle /\ EventsIdle /\ LoadIdle /\ FreezeIdle
    /\ num_epochs \in 1 .. MaxEpochs
    /\ checkpoint_freq \in 1 .. MaxCheckpointFreq
    /\ earlystop_patience \in 0 .. MaxPatience   \* 0 stands for None
    /\ is_master_node \in BOOLEAN
    /\ start_epoch \in 1 .. MaxEpochs
    /\ IF start_epoch = 1
       THEN best_val_loss = Infinity /\ earlystop_count = 0
       ELSE best_val_loss \in Losses /\ earlystop_count \in 0 .. MaxPatience
    /\ entry_best_val_loss = best_val_loss
    /\ epoch = 0
    /\ is_best = FALSE
    /\ val_losses = <<>>
    /\ checkpoint = <<>>

\* the next value of range(configs.start_epoch, configs.num_epochs + 1)
NextEpoch == IF val_losses = <<>> THEN start_epoch ELSE epoch + 1

\* one iteration of the loop of line 122 (lines 135-166)
Epoch ==
    /\ pc = "epoch_loop"
    /\ NextEpoch <= num_epochs
    /\ epoch' = NextEpoch
    /\ \E val_loss \in Losses :
        /\ val_losses' = Append(val_losses, val_loss)
        /\ is_best' = IsBest(val_loss, best_val_loss)
        /\ best_val_loss' = Min(val_loss, best_val_loss)
    \* lines 148-151: the state is saved before the count is updated
    /\ checkpoint' =
           IF is_master_node /\ (is_best' \/ (epoch' % checkpoint_freq) = 0)
           THEN get_saved_state(epoch', best_val_loss', earlystop_count)
           ELSE checkpoint
    \* lines 159-163
    /\ IF earlystop_patience # 0
       THEN /\ earlystop_count' = IF is_best' THEN 0 ELSE earlystop_count + 1
            /\ pc' = IF earlystop_patience <= earlystop_count'
                     THEN "train_done" ELSE "epoch_loop"
       ELSE UNCHANGED <<earlystop_count, pc>>
    /\ UNCHANGED <<start_epoch, num_epochs, checkpoint_freq, earlystop_patience,
                   is_master_node, entry_best_val_loss>>
    /\ UNCHANGED <<forwardVars, eventsVars, loadVars, freezeVars>>

\* the range of line 122 is exhausted
TrainingEnds ==
    /\ pc = "epoch_loop"
    /\ NextEpoch > num_epochs
    /\ pc' = "train_done"
    /\ UNCHANGED trainVars
    /\ UNCHANGED <<forwardVars, eventsVars, loadVars, freezeVars>>

NextTrain == Epoch \/ TrainingEnds

vars == <<cropVars, targetVars, segVars, utilVars>>

SpecSeg == InitSeg /\ [][NextSeg]_vars

SpecTargets == InitTargets /\ [][NextTargets]_vars

Spec == Init /\ [][Next]_vars

SpecCropParams == InitCropParams /\ [][NextCropParams]_vars

SpecEvents == InitEvents /\ [][NextEvents]_vars

SpecLoad == InitLoad /\ [][NextLoad]_vars

SpecFreeze == InitFreeze /\ [][NextFreeze]_vars

SpecTrain == InitTrain /\ [][NextTrain]_vars

\* ======================================================== the claims
AfterCrop == pc \in {"demo", "done"}

w_crop == x_max - x_min
h_crop == y_max - y_min

\* the window of w_resize x h_resize centred on the ball position
WindowLeft == ball_pos_x - IntDiv(w_resize, 2)
WindowTop == ball_pos_y - IntDiv(h_resize, 2)
WindowExceeds ==
    \/ WindowLeft < 0 \/ WindowLeft + w_resize > w_original
    \/ WindowTop < 0 \/ WindowTop + h_resize > h_original

InsideOriginal ==
    /\ 0 <= ball_pos_x /\ ball_pos_x < w_original
    /\ 0 <= ball_pos_y /\ ball_pos_y < h_original

\* C1: for every centre inside the original frame get_crop_params returns
\* 0 <= x_min < x_max <= w_original and 0 <= y_min < y_max <= h_original, and
\* the window is at most w_resize wide and h_resize high.
C1_BoundedWindow ==
    (pc = "params_done" /\ InsideOriginal) =>
        /\ 0 <= x_min /\ x_min < x_max /\ x_max <= w_original
        /\ 0 <= y_min /\ y_min < y_max /\ y_max <= h_original
        /\ x_max - x_min <= w_resize
        /\ y_max - y_min <= h_resize

\* a centre close to the right and bottom borders: both maxima are clamped
C1_Witness ==
    /\ pc = "params_done" /\ InsideOriginal
    /\ x_max = w_original /\ x_max - x_min < w_resize
    /\ y_max = h_original /\ y_max - y_min < h_resize

\* C2: the pixel of the original frame at the predicted ball position is
\* placed at the centre (w_resize/2, h_resize/2) of the local input.
C2_BallAtCentre ==
    AfterCrop =>
        input_ball_local[IntDiv(h_resize, 2)][IntDiv(w_resize, 2)]
            = OriginalPixel(ball_pos_x, ball_pos_y)

\* C3: when the window centred on the ball would pass a border of the frame
\* on any side, the copied region is smaller than w_resize x h_resize and
\* the rest of the local input is zero; when it lies inside, the full region
\* is copied and nothing is zero.
C3_PadsWhenWindowExceeds ==
    AfterCrop =>
        IF WindowExceeds
        THEN /\ (w_crop < w_resize \/ h_crop < h_resize)
             /\ \E y \in 0 .. h_resize - 1, x \in 0 .. w_resize - 1 :
                    input_ball_local[y][x] = 0
        ELSE /\ w_crop = w_resize /\ h_crop = h_resize
             /\ \A y \in 0 .. h_resize - 1, x \in 0 .. w_resize - 1 :
                    input_ball_local[y][x] # 0

InBlock(x, y) ==
    /\ x_pad <= x /\ x < x_pad + w_crop
    /\ y_pad <= y /\ y < y_pad + h_crop

Abs(a) == IF a >= 0 THEN a ELSE -a

\* C4: a cropped region smaller than w_resize x h_resize is written at
\* (x_pad, y_pad) with x_pad, y_pad >= 0, inside the local input, the margins
\* on opposite sides differ by at most one pixel, the block is
\* original[y_min:y_max, x_min:x_max] and every other pixel is zero.
C4_CenteringPad ==
    (AfterCrop /\ (w_crop < w_resize \/ h_crop < h_resize)) =>
        /\ x_pad >= 0 /\ y_pad >= 0
        /\ x_pad + w_crop <= w_resize
        /\ y_pad + h_crop <= h_resize
        /\ Abs((w_resize - w_crop - x_pad) - x_pad) <= 1
        /\ Abs((h_resize - h_crop - y_pad) - y_pad) <= 1
        /\ \A y \in 0 .. h_resize - 1, x \in 0 .. w_resize - 1 :
              input_ball_local[y][x] =
                  IF InBlock(x, y)
                  THEN OriginalPixel(x_min + (x - x_pad), y_min + (y - y_pad))
                  ELSE 0

\* a crop two pixels narrower than the local input: one column of zeros on
\* each side
C4_Witness ==
    /\ AfterCrop
    /\ w_resize - w_crop >= 2 /\ x_pad >= 1
    /\ h_crop < h_resize

\* C5: the heatmap index (ix, iy) becomes (trunc(ix * w_original / w_resize),
\* trunc(iy * h_original / h_resize)), a position inside the original frame.
C5_MappedInsideOriginal ==
    AfterCrop =>
        LET ix == ball_resized[1]
            iy == ball_resized[2]
        IN  /\ ball_pos_x * w_resize <= ix * w_original
            /\ ix * w_original < (ball_pos_x + 1) * w_resize
            /\ ball_pos_y * h_resize <= iy * h_original
            /\ iy * h_original < (ball_pos_y + 1) * h_resize
            /\ InsideOriginal

\* the last index of a heatmap part, with a ratio that is not an integer
C5_Witness ==
    /\ AfterCrop
    /\ ball_resized[1] = w_resize - 1
    /\ (ball_resized[1] * w_original) % w_resize # 0
    /\ ball_resized[2] = h_resize - 1
    /\ h_original > h_resize

NoneAboveX == \A i \in 0 .. w_resize - 1 : pred_ball_global[i] <= Thresh
NoneAboveY == \A i \in 0 .. h_resize - 1 : pred_ball_global[w_resize + i] <= Thresh

\* C6: with no entry above 0.01 in the x part or in the y part, the ball is
\* taken at (w_resize/2, h_resize/2): the local input is the full window
\* around the centre of the original frame, without padding; otherwise each
\* coordinate is the index of a maximal entry of its part, and that entry is
\* above 0.01.
C6_CentreWhenNotDetected ==
    AfterCrop =>
        IF NoneAboveX \/ NoneAboveY
        THEN /\ ball_resized = <<IntDiv(w_resize, 2), IntDiv(h_resize, 2)>>
             /\ (w_resize % 2 = 0 => ball_pos_x = IntDiv(w_original, 2))
             /\ (h_resize % 2 = 0 => ball_pos_y = IntDiv(h_original, 2))
             /\ x_min = WindowLeft /\ w_crop = w_resize
             /\ y_min = WindowTop /\ h_crop = h_resize
             /\ x_pad = 0 /\ y_pad = 0
             /\ \A y \in 0 .. h_resize - 1, x \in 0 .. w_resize - 1 :
                    input_ball_local[y][x] = OriginalPixel(x_min + x, y_min + y)
        ELSE LET ix == ball_resized[1]
                 iy == ball_resized[2]
             IN  /\ pred_ball_global[ix] > Thresh
                 /\ \A j \in 0 .. w_resize - 1 : pred_ball_global[j] <= pred_ball_global[ix]
                 /\ pred_ball_global[w_resize + iy] > Thresh
                 /\ \A j \in 0 .. h_resize - 1 :
                        pred_ball_global[w_resize + j] <= pred_ball_global[w_resize + iy]

\* the x part has a peak away from the centre, the y part has none
C6_Witness ==
    /\ AfterCrop
    /\ NoneAboveY /\ ~NoneAboveX
    /\ pred_ball_global[IntDiv(w_resize, 2)] = Thresh
    /\ w_original > w_resize

\* C7: prediction_ball_final is the pixel of the original frame that
\* crop_original_batch placed at (lx, ly) of the local input:
\* (x_min - x_pad + lx, y_min - y_pad + ly).
C7_FinalInvertsCrop ==
    pc = "done" =>
        prediction_ball_final = <<x_min - x_pad + prediction_local[1],
                                  y_min - y_pad + prediction_local[2]>>

\* C8: create_target_events returns two entries, each 0 or 1, at most one of
\* them 1; for event_class 0 or 1 the one-hot vector at that index, for every
\* other non-negative event_class all zeros.
C8_EventTargets ==
    pc = "targets_done" =>
        /\ DOMAIN target_events = 0 .. 1
        /\ \A i \in 0 .. 1 : target_events[i] \in {0, 1}
        /\ Cardinality({i \in 0 .. 1 : target_events[i] = 1}) <= 1
        /\ (event_class \in {0, 1} =>
               /\ target_events[event_class] = 1
               /\ target_events[1 - event_class] = 0)
        /\ (event_class >= 2 => \A i \in 0 .. 1 : target_events[i] = 0)

\* the empty event
C8_Witness ==
    /\ pc = "targets_done"
    /\ event_class = 2
    /\ target_events = [i \in 0 .. 1 |-> 0]

SegH == resize_batch_input.h
SegW == resize_batch_input.w
MultiplesOf32 == SegH % 32 = 0 /\ SegW % 32 = 0

\* fc1 of BallDetection takes 2560 = 256 * (H / 64) * (W / 64) features
HeadAccepts == 256 * (SegH \div 64) * (SegW \div 64) = 2560

ShapesAsClaimed ==
    /\ pc # "raised"
    /\ (pc \in {"segmentation", "seg_done"} =>
          /\ out_blocks.out_block2 = [c |-> 64, h |-> SegH \div 4, w |-> SegW \div 4]
          /\ out_blocks.out_block3 = [c |-> 128, h |-> SegH \div 8, w |-> SegW \div 8]
          /\ out_blocks.out_block4 = [c |-> 128, h |-> SegH \div 16, w |-> SegW \div 16]
          /\ out_blocks.out_block5 = [c |-> 256, h |-> SegH \div 32, w |-> SegW \div 32]
          \* the operands of the three skip additions
          /\ DeconvBlock(out_blocks.out_block5, 256, 128) = out_blocks.out_block4
          /\ DeconvBlock(out_blocks.out_block4, 128, 128) = out_blocks.out_block3
          /\ DeconvBlock(out_blocks.out_block3, 128, 64) = out_blocks.out_block2)
    /\ (pc = "seg_done" =>
          pred_segmentation = [c |-> 3, h |-> SegH, w |-> SegW])

\* C9 as stated: for every input whose height and width are multiples of 32
\* the skip outputs have sizes H/4, H/8, H/16, H/32, every skip addition adds
\* tensors of equal shape, and the output is 3 x H x W.
C9_ShapesForMultiplesOf32 == MultiplesOf32 => ShapesAsClaimed

\* C9 amended: the same, for the inputs that the fully connected head of the
\* encoder accepts (256 * (H div 64) * (W div 64) = 2560, as 128 x 320).
C9_ShapesWhenHeadAccepts == (MultiplesOf32 /\ HeadAccepts) => ShapesAsClaimed

C9_Witness ==
    /\ pc = "seg_done"
    /\ SegH = 128 /\ SegW = 320
    /\ pred_segmentation = [c |-> 3, h |-> 128, w |-> 320]

\* what C10 says of one target
TargetRecovers(pos, target, lowest) ==
    LET w == w_resize
        h == h_resize
        x == pos[1]
        y == pos[2]
    IN  /\ DOMAIN target = 0 .. w + h - 1
        /\ IF (lowest <= x /\ x < w) /\ (lowest <= y /\ y < h)
           THEN /\ \E i \in 0 .. w + h - 1 : ~target[i].zero
                /\ \A i \in 0 .. w - 1 : i # x => Less(target[i], target[x])
                /\ \A i \in 0 .. h - 1 : i # y => Less(target[w + i], target[w + y])
           ELSE \A i \in 0 .. w + h - 1 : target[i].zero
        /\ \A i \in 0 .. w + h - 1 : ~target[i].zero => ~BelowThreshMask(target[i])

\* C10: the target has w + h entries; for a ball at 0 <= x < w, 0 <= y < h it
\* is non-zero with the maximum of the first w entries at x and of the last h
\* entries at y; for a ball outside the frame it is all zeros; no entry is
\* non-zero and below thresh_mask.
C10_TargetRecoversPosition ==
    pc = "targets_done" =>
        /\ TargetRecovers(global_ball_pos_xy, target_ball_global, 0)
        /\ TargetRecovers(local_ball_pos_xy, target_ball_local, 0)

\* ---------------------------------------------------------------- C11
InEvents == pc \in {"events", "events_done"}

Odd(n) == n % 2 = 1

\* the frame indices of the paths are consecutive and increasing
Consecutive(paths) ==
    \A i \in 1 .. Len(paths) - 1 :
        paths[i + 1][1] = paths[i][1] /\ paths[i + 1][2] = paths[i][2] + 1

\* the annotation of the i-th retained event
RetainedAnnos ==
    SelectSeq(events_annos, LAMBDA a : a.last_ball[1] >= 0 /\ a.last_ball[2] >= 0)

SequenceAsClaimed(i, length) ==
    LET e == events_infor[i]
        a == RetainedAnnos[i]
    IN  /\ Len(e.img_path_list) = length
        /\ Consecutive(e.img_path_list)
        /\ e.img_path_list[(length + 1) \div 2] = <<a.game_name, a.event_frameidx>>
        /\ e.seg_path = e.img_path_list[length]
        /\ e.ball_position_xy = a.last_ball

\* C11 as stated: for every num_frames_sequence >= 1 each retained event has
\* exactly num_frames_sequence image paths, consecutive, with the annotated
\* frame in the middle, and the ball position and the mask of the last frame
C11_SequenceForEveryLength ==
    InEvents =>
        \A i \in 1 .. Len(events_infor) : SequenceAsClaimed(i, num_frames_sequence)

\* C11, corrected: this holds for every odd num_frames_sequence; for an even
\* num_frames_sequence the sequence has num_frames_sequence - 1 image paths
C11_SequenceForOddLength ==
    InEvents =>
        \A i \in 1 .. Len(events_infor) :
            IF Odd(num_frames_sequence)
            THEN SequenceAsClaimed(i, num_frames_sequence)
            ELSE SequenceAsClaimed(i, num_frames_sequence - 1)

C11_Witness ==
    /\ pc = "events_done"
    /\ num_frames_sequence = 3
    /\ Len(events_infor) >= 1
    /\ Len(events_infor[1].img_path_list) = 3

\* ---------------------------------------------------------------- C12
\* C12: an event is retained iff no coordinate of the ball at the last frame
\* of its sequence is negative; the retained events keep the order of the
\* annotations, events_infor and events_labels have the same length,
\* events_labels[i] is the class of events_infor[i], and a skipped event adds
\* to neither list
C12_RetainedAlignedInOrder ==
    InEvents =>
        /\ Len(events_infor) = Len(RetainedAnnos)
        /\ Len(events_labels) = Len(events_infor)
        /\ \A i \in 1 .. Len(events_infor) :
               /\ events_labels[i] = events_infor[i].event_class
               /\ events_infor[i].event_class = events_dict[RetainedAnnos[i].event_name]
               /\ events_infor[i].ball_position_xy = RetainedAnnos[i].last_ball
               /\ \E j \in 1 .. Len(events_infor[i].img_path_list) :
                      events_infor[i].img_path_list[j] =
                          <<RetainedAnnos[i].game_name, RetainedAnnos[i].event_frameidx>>

\* a skipped event, then a retained one whose ball is at coordinate 0
C12_Witness ==
    /\ pc = "events_done"
    /\ Len(events_annos) = 2
    /\ events_annos[1].last_ball[1] < 0
    /\ events_annos[2].last_ball = <<0, 0>>
    /\ Len(events_infor) = 1
    /\ events_labels = <<events_dict[events_annos[2].event_name]>>

\* ---------------------------------------------------------------- C13
\* the name with every 'ball_global_stage' replaced by 'ball_local_stage'
Replaced(layer_name) ==
    [i \in 1 .. Len(layer_name) |->
        IF layer_name[i] = "ball_global_stage" THEN "ball_local_stage" ELSE layer_name[i]]

\* C13: for every entry whose name refers to a ball_global_stage layer the
\* result of load_weights_local_stage maps the name with 'ball_global_stage'
\* replaced by 'ball_local_stage' to the same value, before any local entry of
\* the input; every other entry is returned unchanged and no other key is
\* added, whatever the position of 'ball_global_stage' in the dotted name
C13_LocalStageOverwritten ==
    pc = "local_stage_done" =>
        LET d == pretrained_dict
            r == local_stage_result
            locals == {Replaced(g) : g \in GlobalKeys(d)}
        IN  /\ DOMAIN r = DOMAIN d \cup locals
            /\ \A g \in GlobalKeys(d) : r[Replaced(g)] = d[g]
            /\ \A k \in DOMAIN d \ locals : r[k] = d[k]

\* ---------------------------------------------------------------- C14
\* the model entries that change: those named in the checkpoint and, with
\* overwrite_global_2_local, the local-stage twins of the global-stage entries
\* named in the checkpoint
Overwritten ==
    (DOMAIN pretrained_dict \cap DOMAIN model_state_dict)
    \cup (IF overwrite_global_2_local
          THEN {Replaced(g) : g \in GlobalKeys(pretrained_dict) \cap DOMAIN model_state_dict}
          ELSE {})

\* load_state_dict has been called: its argument has at least the model's keys
Handed == pc \in {"load_done", "raised"} /\ DOMAIN loaded_state_dict # {}

KeysOfModelOnly ==
    /\ DOMAIN loaded_state_dict = DOMAIN model_state_dict
    /\ \A k \in DOMAIN pretrained_dict \ DOMAIN model_state_dict :
           k \notin DOMAIN loaded_state_dict

C15_FlagsFromListAlone ==
    (pc = "freeze" /\ freeze_calls >= 1) =>
        /\ DOMAIN requires_grad = ParamNames
        /\ \A layer_name \in ParamNames :
               (requires_grad[layer_name] = FALSE) <=>
                   (\E i \in 1 .. Len(freeze_modules_list) :
                        Contains(freeze_modules_list[i], layer_name))

\* a second call that unfreezes one parameter and freezes another
C15_Witness ==
    /\ pc = "freeze"
    /\ freeze_calls = 2
    /\ \E p, q \in ParamNames :
           /\ ~ requires_grad_before[p] /\ requires_grad[p]
           /\ requires_grad_before[q] /\ ~ requires_grad[q]

\* ---------------------------------------------------------------- C16
InTraining == pc \in {"epoch_loop", "train_done"}

RECURSIVE MinOf(_, _)
MinOf(first, losses) ==
    IF losses = <<>> THEN first
    ELSE LET rest == MinOf(first, SubSeq(losses, 1, Len(losses) - 1))
             last == losses[Len(losses)]
         IN  IF last < rest THEN last ELSE rest

BestIsMinimum ==
    InTraining =>
        /\ best_val_loss = MinOf(entry_best_val_loss, val_losses)
        /\ val_losses # <<>> =>
               (is_best <=>
                   val_losses[Len(val_losses)] <=
                       MinOf(entry_best_val_loss,
                             SubSeq(val_losses, 1, Len(val_losses) - 1)))

\* C16: best_val_loss never increases; after every epoch it is the minimum of
\* its value at the entry of the loop and the validation losses so far, and
\* is_best holds iff the loss of the epoch is <= best_val_loss as it was
\* before the epoch
C16_BestValLoss ==
    [] BestIsMinimum /\ [][best_val_loss' <= best_val_loss]_vars

\* an epoch whose loss equals the best so far, after a worse one
C16_Witness ==
    /\ InTraining
    /\ Len(val_losses) >= 3
    /\ val_losses[1] < val_losses[2]
    /\ val_losses[3] = val_losses[1]
    /\ is_best
    /\ best_val_loss = val_losses[1]
    /\ best_val_loss < entry_best_val_loss

\* ---------------------------------------------------------------- C17
\* C17: the earlystop_count and best_val_loss stored in the checkpoint of an
\* epoch are the values at the end of that epoch, after its update, so that a
\* resumed run goes on with the early-stopping state of the uninterrupted run
C17_CheckpointHoldsEndOfEpoch ==
    (InTraining /\ checkpoint # <<>> /\ val_losses # <<>>
        /\ checkpoint.epoch = epoch) =>
            /\ checkpoint.best_val_loss = best_val_loss
            /\ checkpoint.earlystop_count = earlystop_count

====
